---- MODULE Spec2Model ----
(***************************************************************************)
(* A model of the smartcalc line evaluation pipeline:                      *)
(*   - execute (executer/mod.rs): the per-line loop over a session that    *)
(*     holds the asts and the variables,                                   *)
(*   - the interpreter (compiler/mod.rs): execute_ast, assignment,         *)
(*     variable reference, binary dispatch, number arithmetic,             *)
(*   - the tokenizer's add_token_location / tokinize_with_regex,           *)
(*   - the UiTokenCollection (token/ui_token.rs),                          *)
(*   - the rule engine apply_rules (tokinizer/mod.rs).                     *)
(* Each component has its own specification over the shared variables.     *)
(***************************************************************************)
EXTENDS Integers, Sequences, FiniteSets, TLC

VARIABLES
    \* ---- execute: one session over a multi-line input
    lines_total,      \* number of lines data.lines() yields
    processed,        \* the lines read so far, in order
    results,          \* execute's results vector
    asts,             \* storage.asts
    variables,        \* storage.variables: sequence of [name, data]
    trace,            \* per processed line: what its iteration did (history)
    pc,               \* "loop" while execute iterates, "done" after it returned
    \* ---- Tokinizer::tokinize_with_regex
    token_locations,  \* Tokinizer.token_locations
    tok_category,     \* index into TOKEN_REGEX_PARSER of the running parser
    tok_pc,           \* "parsers" while the regex parsers run, "done" after
    \* ---- UiTokenCollection
    ui_text,          \* the text: the utf-8 length of each of its characters
    ui_tokens,        \* UiTokenCollection.tokens
    char_sizes,       \* UiTokenCollection.char_sizes
    ui_last,          \* the last call made on the collection and its effect
    \* ---- Tokinizer::apply_rules
    rules,            \* the rule pack: sequence of [function, tokens_list]
    rule_locations,   \* the token_locations apply_rules rewrites
    execute_rules,    \* the flag of the while loop
    rule_index,       \* the rule the for loop is at
    pattern_index,    \* the pattern of that rule the inner for loop is at
    rule_pc,          \* "while", "for", "done"
    passes,           \* passes of the while loop started
    last_fire,        \* what the last pattern attempt did
    \* ---- one call of a function of the interpreter or of the workers
    calc_call,        \* the function called and its arguments
    calc_ret,         \* what the call returned
    calc_pc           \* "call" before the call, "return" after it

exec_vars  == <<lines_total, processed, results, asts, variables, trace, pc>>
tok_vars   == <<token_locations, tok_category, tok_pc>>
ui_vars    == <<ui_text, ui_tokens, char_sizes, ui_last>>
rule_vars  == <<rules, rule_locations, execute_rules, rule_index, pattern_index,
                rule_pc, passes, last_fire>>
calc_vars  == <<calc_call, calc_ret, calc_pc>>
vars       == <<exec_vars, tok_vars, ui_vars, rule_vars, calc_vars>>

(***************************************************************************)
(* Bounds of the model.                                                    *)
(***************************************************************************)
MaxLines == 3

(***************************************************************************)
(* f64 numbers are modelled as exact fractions <<numerator, denominator>>  *)
(* with a positive denominator, in lowest terms.                           *)
(***************************************************************************)
Abs(x) == IF x < 0 THEN -x ELSE x

RECURSIVE GCD(_, _)
GCD(a, b) == IF b = 0 THEN a ELSE GCD(b, a % b)

Rat(n, d) ==
    LET g == GCD(Abs(n), Abs(d))
        s == IF d < 0 THEN -1 ELSE 1
    IN  <<(s * n) \div g, (s * d) \div g>>

Int2Rat(n) == <<n, 1>>
RAdd(x, y) == Rat(x[1] * y[2] + y[1] * x[2], x[2] * y[2])
RSub(x, y) == Rat(x[1] * y[2] - y[1] * x[2], x[2] * y[2])
RMul(x, y) == Rat(x[1] * y[1], x[2] * y[2])
RZero      == <<0, 1>>
RHundred   == <<100, 1>>

\* variant: the quotient is returned as it is, infinite for a zero divisor
do_divition_raw(left, right) ==
    IF right[1] = 0 THEN <<1, 0>> ELSE Rat(left[1] * right[2], left[2] * right[1])

\* left / right, and 0.0 when the quotient is infinite or NaN (a zero divisor)
do_divition(left, right) ==
    IF right[1] = 0 THEN RZero ELSE Rat(left[1] * right[2], left[2] * right[1])

(***************************************************************************)
(* BramaAstType.  A Variable node holds the Rc of its VariableInfo, which  *)
(* the model identifies by the variable's index in storage.variables.      *)
(***************************************************************************)
AstNone               == [t |-> "None"]
AstNumber(n)          == [t |-> "Number", n |-> n]
AstPercent(n)         == [t |-> "Percent", n |-> n]
AstVariable(i)        == [t |-> "Variable", index |-> i]
AstAssignment(i, e)   == [t |-> "Assignment", index |-> i, expression |-> e]
AstBinary(l, op, r)   == [t |-> "Binary", left |-> l, operator |-> op, right |-> r]
AstMoney(price, currency) == [t |-> "Money", n |-> price, currency |-> currency]
\* a NaiveTime is its number of seconds from midnight, a Duration its seconds
AstTime(time)         == [t |-> "Time", time |-> time]
AstDuration(duration) == [t |-> "Duration", duration |-> duration]
AstDate(date)         == [t |-> "Date", date |-> date]

Ok(value, vs)  == [ok |-> TRUE,  val |-> value,   err |-> "",  vars |-> vs]
Err(error, vs) == [ok |-> FALSE, val |-> AstNone, err |-> error, vars |-> vs]
\* the call does not return: an invalid NaiveDate::from_ymd
Panic(vs)      == [ok |-> FALSE, val |-> AstNone, err |-> "panic", vars |-> vs]

\* the lengths of the units in seconds (formatter)
MINUTE == 60
HOUR   == 60 * MINUTE
DAY    == 24 * HOUR
WEEK   == 7 * DAY
MONTH  == 30 * DAY
YEAR   == 365 * DAY

(***************************************************************************)
(* The interpreter (compiler/mod.rs).  Storage is threaded through the     *)
(* evaluation: an assignment writes a variable cell.  Operands reach the   *)
(* calculate_* handlers already evaluated; the handlers still dereference  *)
(* a Variable node once, as the code does.                                 *)
(***************************************************************************)
Deref(vs, ast) == IF ast.t = "Variable" THEN vs[ast.index].data ELSE ast

HasPercent(vs, ast) == Deref(vs, ast).t = "Percent"
HasNumber(vs, ast)  == Deref(vs, ast).t = "Number"

\* Some(percent) of the left operand, else of the right one; None otherwise
get_first_percent(vs, left, right) ==
    IF HasPercent(vs, left) THEN [some |-> TRUE, n |-> Deref(vs, left).n]
    ELSE IF HasPercent(vs, right) THEN [some |-> TRUE, n |-> Deref(vs, right).n]
    ELSE [some |-> FALSE, n |-> RZero]

get_first_number(vs, left, right) ==
    IF HasNumber(vs, left) THEN [some |-> TRUE, n |-> Deref(vs, left).n]
    ELSE IF HasNumber(vs, right) THEN [some |-> TRUE, n |-> Deref(vs, right).n]
    ELSE [some |-> FALSE, n |-> RZero]

get_high_duration_number(duration) ==
    LET duration_info == Abs(duration)
    IN  IF duration_info >= YEAR THEN duration_info \div YEAR
        ELSE IF duration_info >= MONTH THEN (duration_info \div MONTH) % 30
        ELSE IF duration_info >= DAY THEN duration_info \div DAY
        ELSE IF duration_info >= HOUR THEN (duration_info \div HOUR) % 24
        ELSE IF duration_info >= MINUTE THEN (duration_info \div MINUTE) % 60
        ELSE duration_info

IsNumeric(vs, ast) == Deref(vs, ast).t \in {"Number", "Money", "Percent", "Duration"}

NumberOf(vs, ast) ==
    IF Deref(vs, ast).t = "Duration"
    THEN Int2Rat(get_high_duration_number(Deref(vs, ast).duration))
    ELSE Deref(vs, ast).n

get_numbers(vs, left, right) ==
    IF IsNumeric(vs, left) /\ IsNumeric(vs, right)
    THEN [some |-> TRUE, l |-> NumberOf(vs, left), r |-> NumberOf(vs, right)]
    ELSE [some |-> FALSE, l |-> RZero, r |-> RZero]

\* variant: a Percent operand is taken as a plain number
calculate_number_plain(vs, operator, left, right) ==
    LET numbers == get_numbers(vs, left, right)
    IN  IF ~numbers.some THEN Err("Unknown calculation", vs)
        ELSE CASE operator = "+" -> Ok(AstNumber(RAdd(numbers.l, numbers.r)), vs)
               [] operator = "-" -> Ok(AstNumber(RSub(numbers.l, numbers.r)), vs)
               [] operator = "/" -> Ok(AstNumber(do_divition(numbers.l, numbers.r)), vs)
               [] operator = "*" -> Ok(AstNumber(RMul(numbers.l, numbers.r)), vs)
               [] OTHER          -> Err("Unknown operator", vs)

calculate_number(vs, operator, left, right) ==
    LET percent == get_first_percent(vs, left, right)
        number  == get_first_number(vs, left, right)
        numbers == get_numbers(vs, left, right)
        part    == do_divition(RMul(number.n, percent.n), RHundred)
    IN  IF percent.some
        THEN IF ~number.some THEN Err("Number information not valid", vs)
             ELSE CASE operator = "+" -> Ok(AstNumber(RAdd(number.n, part)), vs)
                    [] operator = "-" -> Ok(AstNumber(RSub(number.n, part)), vs)
                    [] operator = "*" -> Ok(AstNumber(RMul(number.n, part)), vs)
                    [] operator = "/" -> Ok(AstNumber(do_divition(number.n, part)), vs)
                    [] OTHER          -> Err("Unknown operator", vs)
        ELSE IF ~numbers.some THEN Err("Unknown calculation", vs)
             ELSE CASE operator = "+" -> Ok(AstNumber(RAdd(numbers.l, numbers.r)), vs)
                    [] operator = "-" -> Ok(AstNumber(RSub(numbers.l, numbers.r)), vs)
                    [] operator = "/" -> Ok(AstNumber(do_divition(numbers.l, numbers.r)), vs)
                    [] operator = "*" -> Ok(AstNumber(RMul(numbers.l, numbers.r)), vs)
                    [] OTHER          -> Err("Unknown operator", vs)

(***************************************************************************)
(* Money.                                                                  *)
(***************************************************************************)
Currencies == {"usd", "try"}

\* the FX table: the rate of a currency
currency_rate(currency) == IF currency = "usd" THEN Int2Rat(1) ELSE Int2Rat(2)

\* variant: the left price is taken as it is
convert_currency_unconverted(left, right) == left.n

\* the left price in the right money's currency: price * rate(from) / rate(to)
convert_currency(left, right) ==
    do_divition(RMul(left.n, currency_rate(left.currency)), currency_rate(right.currency))

HasMoney(vs, ast) == Deref(vs, ast).t = "Money"

detect_target_currency(vs, left, right) ==
    IF HasMoney(vs, right) THEN [some |-> TRUE, currency |-> Deref(vs, right).currency]
    ELSE IF HasMoney(vs, left) THEN [some |-> TRUE, currency |-> Deref(vs, left).currency]
    ELSE [some |-> FALSE, currency |-> ""]

get_first_money(vs, left, right) ==
    IF HasMoney(vs, left) THEN [some |-> TRUE, n |-> Deref(vs, left).n]
    ELSE IF HasMoney(vs, right) THEN [some |-> TRUE, n |-> Deref(vs, right).n]
    ELSE [some |-> FALSE, n |-> RZero]

get_moneys(vs, left, right) ==
    IF HasMoney(vs, left) /\ HasMoney(vs, right)
    THEN [some |-> TRUE, l |-> Deref(vs, left), r |-> Deref(vs, right)]
    ELSE [some |-> FALSE, l |-> AstNone, r |-> AstNone]

calculate_money(vs, operator, left, right) ==
    LET to_currency == detect_target_currency(vs, left, right)
        percent == get_first_percent(vs, left, right)
        price   == get_first_money(vs, left, right)
        moneys  == get_moneys(vs, left, right)
        numbers == get_numbers(vs, left, right)
        part    == do_divition(RMul(price.n, percent.n), RHundred)
        left_price == convert_currency(moneys.l, moneys.r)
    IN  IF ~to_currency.some THEN Err("Currency information not valid", vs)
        ELSE IF percent.some
        THEN IF ~price.some THEN Err("Price information not valid", vs)
             ELSE CASE operator = "+" -> Ok(AstMoney(RAdd(price.n, part), to_currency.currency), vs)
                    [] operator = "-" -> Ok(AstMoney(RSub(price.n, part), to_currency.currency), vs)
                    [] operator = "*" -> Ok(AstMoney(RMul(price.n, part), to_currency.currency), vs)
                    [] operator = "/" -> Ok(AstMoney(do_divition(price.n, part), to_currency.currency), vs)
                    [] OTHER          -> Err("Unknown operator", vs)
        ELSE IF moneys.some
        THEN CASE operator = "+" -> Ok(AstMoney(RAdd(left_price, moneys.r.n), moneys.r.currency), vs)
               [] operator = "-" -> Ok(AstMoney(RSub(left_price, moneys.r.n), moneys.r.currency), vs)
               [] operator = "/" -> Ok(AstMoney(do_divition(left_price, moneys.r.n), moneys.r.currency), vs)
               [] operator = "*" -> Ok(AstMoney(RMul(left_price, moneys.r.n), moneys.r.currency), vs)
               [] OTHER          -> Err("Unknown operator", vs)
        ELSE IF ~numbers.some THEN Err("Unknown calculation", vs)
        ELSE CASE operator = "+" -> Ok(AstMoney(RAdd(numbers.l, numbers.r), to_currency.currency), vs)
               [] operator = "-" -> Ok(AstMoney(RSub(numbers.l, numbers.r), to_currency.currency), vs)
               [] operator = "/" -> Ok(AstMoney(do_divition(numbers.l, numbers.r), to_currency.currency), vs)
               [] operator = "*" -> Ok(AstMoney(RMul(numbers.l, numbers.r), to_currency.currency), vs)
               [] OTHER          -> Err("Unknown operator", vs)

(***************************************************************************)
(* Time and Duration.  NaiveTime + Duration and NaiveTime - Duration wrap  *)
(* around midnight.                                                        *)
(***************************************************************************)
\* NaiveTime::from_hms(hours, minutes, seconds) of the absolute duration
duration_to_time(duration) ==
    LET d0      == Abs(duration)
        hours   == IF d0 >= HOUR THEN (d0 \div HOUR) % 24 ELSE 0
        d1      == IF d0 >= HOUR THEN d0 % HOUR ELSE d0
        minutes == IF d1 >= MINUTE THEN (d1 \div MINUTE) % 60 ELSE 0
        seconds == IF d1 >= MINUTE THEN d1 % MINUTE ELSE d1
    IN  hours * 3600 + minutes * 60 + seconds

TimeAdd(time, duration) == (time + duration) % DAY
TimeSub(time, duration) == (time - duration) % DAY

get_times(vs, left, right) ==
    LET l == Deref(vs, left)
        r == Deref(vs, right)
    IN  IF l.t \notin {"Time", "Duration"} \/ r.t \notin {"Time", "Duration"}
        THEN [some |-> FALSE, left_time |-> 0, right_time |-> 0, is_negative |-> FALSE]
        ELSE [some |-> TRUE,
              left_time  |-> IF l.t = "Time" THEN l.time ELSE duration_to_time(l.duration),
              right_time |-> IF r.t = "Time" THEN r.time ELSE duration_to_time(r.duration),
              is_negative |-> r.t = "Duration" /\ r.duration < 0]

\* variant: the sign of the duration is not looked at
calculate_time_unsigned(vs, operator, left, right) ==
    LET times == get_times(vs, left, right)
    IN  IF ~times.some THEN Err("Unknown operator", vs)
        ELSE CASE operator = "+" -> Ok(AstTime(TimeAdd(times.left_time, times.right_time)), vs)
               [] operator = "-" -> Ok(AstTime(TimeSub(times.left_time, times.right_time)), vs)
               [] OTHER          -> Err("Unknown operator", vs)

calculate_time(vs, operator, left, right) ==
    LET times == get_times(vs, left, right)
        calculated_right == times.right_time
    IN  IF ~times.some THEN Err("Unknown operator", vs)
        ELSE IF times.is_negative
        THEN Ok(AstTime(TimeSub(times.left_time, calculated_right)), vs)
        ELSE CASE operator = "+" -> Ok(AstTime(TimeAdd(times.left_time, calculated_right)), vs)
               [] operator = "-" -> Ok(AstTime(TimeSub(times.left_time, calculated_right)), vs)
               [] OTHER          -> Err("Unknown operator", vs)

get_durations(vs, left, right) ==
    IF Deref(vs, left).t = "Duration" /\ Deref(vs, right).t = "Duration"
    THEN [some |-> TRUE, left_time |-> Deref(vs, left).duration,
          right_time |-> Deref(vs, right).duration]
    ELSE [some |-> FALSE, left_time |-> 0, right_time |-> 0]

calculate_duration(vs, operator, left, right) ==
    LET durations == get_durations(vs, left, right)
    IN  IF ~durations.some THEN Err("Unknown operator", vs)
        ELSE CASE operator = "+" -> Ok(AstDuration(durations.left_time + durations.right_time), vs)
               [] operator = "-" -> Ok(AstDuration(durations.left_time - durations.right_time), vs)
               [] OTHER          -> Err("Unknown operator", vs)

(***************************************************************************)
(* Date.  A NaiveDate is [year, month, day]; adding a Duration to it adds  *)
(* the duration's whole days (chrono).                                     *)
(***************************************************************************)
Date(year, month, day) == [year |-> year, month |-> month, day |-> day]

IsLeap(year) == (year % 4 = 0 /\ year % 100 # 0) \/ year % 400 = 0

DaysInMonth(year, month) ==
    IF month = 2 THEN (IF IsLeap(year) THEN 29 ELSE 28)
    ELSE IF month \in {4, 6, 9, 11} THEN 30 ELSE 31

\* NaiveDate::from_ymd panics on a date that does not exist
ValidDate(date) ==
    /\ date.month \in 1..12
    /\ date.day >= 1 /\ date.day <= DaysInMonth(date.year, date.month)

\* the number of days from 1970-01-01 to the date
DaysFromCivil(date) ==
    LET y   == IF date.month <= 2 THEN date.year - 1 ELSE date.year
        era == y \div 400
        yoe == y - era * 400
        mp  == IF date.month > 2 THEN date.month - 3 ELSE date.month + 9
        doy == (153 * mp + 2) \div 5 + date.day - 1
        doe == yoe * 365 + yoe \div 4 - yoe \div 100 + doy
    IN  era * 146097 + doe - 719468

CivilFromDays(days) ==
    LET z   == days + 719468
        era == z \div 146097
        doe == z - era * 146097
        yoe == (doe - doe \div 1460 + doe \div 36524 - doe \div 146096) \div 365
        doy == doe - (365 * yoe + yoe \div 4 - yoe \div 100)
        mp  == (5 * doy + 2) \div 153
        d   == doy - (153 * mp + 2) \div 5 + 1
        m   == IF mp < 10 THEN mp + 3 ELSE mp - 9
    IN  Date(yoe + era * 400 + (IF m <= 2 THEN 1 ELSE 0), m, d)

\* Duration::num_days truncates toward zero
num_days(duration) ==
    IF duration >= 0 THEN duration \div DAY ELSE -((-duration) \div DAY)

DateAdd(date, duration) == CivilFromDays(DaysFromCivil(date) + num_days(duration))
DateSub(date, duration) == CivilFromDays(DaysFromCivil(date) - num_days(duration))

get_month_from_duration(duration) == Abs(duration) \div MONTH
get_year_from_duration(duration)  == Abs(duration) \div YEAR

get_date(vs, ast) ==
    IF Deref(vs, ast).t = "Date" THEN [some |-> TRUE, date |-> Deref(vs, ast).date]
    ELSE [some |-> FALSE, date |-> Date(0, 0, 0)]

get_duration(vs, ast) ==
    IF Deref(vs, ast).t = "Duration"
    THEN [some |-> TRUE, duration |-> Deref(vs, ast).duration]
    ELSE [some |-> FALSE, duration |-> 0]

\* lines 352-371: the years, then the months, then the rest of the duration
calculate_date_add(vs, date0, duration0) ==
    LET ny        == get_year_from_duration(duration0)
        date1     == IF ny = 0 THEN date0
                     ELSE Date(date0.year + ny, date0.month, date0.day)
        duration1 == IF ny = 0 THEN duration0 ELSE duration0 - YEAR * ny
        nm        == get_month_from_duration(duration1)
        date2     == IF nm = 0 THEN date1
                     ELSE Date(date1.year + (date1.month + nm) \div 12,
                               (date1.month + nm) % 12, date1.day)
        duration2 == IF nm = 0 THEN duration1 ELSE duration1 - MONTH * nm
    IN  IF ~ValidDate(date1) \/ ~ValidDate(date2) THEN Panic(vs)
        ELSE Ok(AstDate(DateAdd(date2, duration2)), vs)

\* lines 375-397
calculate_date_sub(vs, date0, duration0) ==
    LET ny        == get_year_from_duration(duration0)
        date1     == IF ny = 0 THEN date0
                     ELSE Date(date0.year - ny, date0.month, date0.day)
        duration1 == IF ny = 0 THEN duration0 ELSE duration0 - YEAR * ny
        nm        == get_month_from_duration(duration1)
        months0   == date1.month - (nm % 12)
        months    == IF months0 < 0 THEN months0 + 12 ELSE months0
        date2     == IF nm = 0 THEN date1
                     ELSE Date(date1.year - (nm \div 12), months, date1.day)
        duration2 == IF nm = 0 THEN duration1 ELSE duration1 - MONTH * nm
    IN  IF ~ValidDate(date1) \/ ~ValidDate(date2) THEN Panic(vs)
        ELSE Ok(AstDate(DateSub(date2, duration2)), vs)

calculate_date(vs, operator, left, right) ==
    LET date     == get_date(vs, left)
        duration == get_duration(vs, right)
    IN  IF ~date.some \/ ~duration.some THEN Err("Unknown operator", vs)
        ELSE CASE operator = "+" -> calculate_date_add(vs, date.date, duration.duration)
               [] operator = "-" -> calculate_date_sub(vs, date.date, duration.duration)
               [] OTHER          -> Err("Unknown operator", vs)

\* variant: the cell is emptied by the read (take() in place of borrow().clone())
executer_variable_take(vs, index) ==
    Ok(vs[index].data, [vs EXCEPT ![index].data = AstNone])

executer_variable(vs, index) == Ok(vs[index].data, vs)

RECURSIVE execute_ast(_, _)

\* variant: the computed value is stored, but the stale cell content is returned
executer_assignment_stale(vs, index, expression) ==
    LET computed == execute_ast(vs, expression)
    IN  IF ~computed.ok THEN computed
        ELSE Ok(vs[index].data, [computed.vars EXCEPT ![index].data = computed.val])

\* variant: the cell is written only while it is still empty
executer_assignment_once(vs, index, expression) ==
    LET computed == execute_ast(vs, expression)
    IN  IF ~computed.ok THEN computed
        ELSE IF vs[index].data = AstNone
             THEN Ok(computed.val, [computed.vars EXCEPT ![index].data = computed.val])
             ELSE Ok(vs[index].data, computed.vars)

\* variant: the assigned variable is re-created at the end of the list
executer_assignment_move(vs, index, expression) ==
    LET computed == execute_ast(vs, expression)
        others   == SelectSeq(computed.vars, LAMBDA v : v.name # vs[index].name)
    IN  IF ~computed.ok THEN computed
        ELSE Ok(computed.val,
                Append(others, [name |-> vs[index].name, data |-> computed.val]))

\* variant: the cell is emptied when the right side fails
executer_assignment_clears(vs, index, expression) ==
    LET computed == execute_ast(vs, expression)
    IN  IF ~computed.ok
        THEN Err(computed.err, [computed.vars EXCEPT ![index].data = AstNone])
        ELSE Ok(computed.val, [computed.vars EXCEPT ![index].data = computed.val])

executer_assignment(vs, index, expression) ==
    LET computed == execute_ast(vs, expression)
    IN  IF ~computed.ok THEN computed
        ELSE Ok(computed.val, [computed.vars EXCEPT ![index].data = computed.val])

\* variant: the number handler is tried before the others
binary_handler_number_first(left_type, right_type) ==
    CASE "Number" \in {left_type, right_type}   -> "number"
      [] "Money" \in {left_type, right_type}    -> "money"
      [] "Date" \in {left_type, right_type}     -> "date"
      [] "Time" \in {left_type, right_type}     -> "time"
      [] "Duration" \in {left_type, right_type} -> "duration"
      [] OTHER                                  -> "none"

\* the arms of the match of lines 505-512, in order
binary_handler(left_type, right_type) ==
    CASE left_type = "Money" \/ right_type = "Money"       -> "money"
      [] left_type = "Date" \/ right_type = "Date"         -> "date"
      [] left_type = "Time" \/ right_type = "Time"         -> "time"
      [] left_type = "Duration" \/ right_type = "Duration" -> "duration"
      [] left_type = "Number" \/ right_type = "Number"     -> "number"
      [] OTHER                                             -> "none"

calculate(handler, vs, operator, left, right) ==
    CASE handler = "money"    -> calculate_money(vs, operator, left, right)
      [] handler = "date"     -> calculate_date(vs, operator, left, right)
      [] handler = "time"     -> calculate_time(vs, operator, left, right)
      [] handler = "duration" -> calculate_duration(vs, operator, left, right)
      [] handler = "number"   -> calculate_number(vs, operator, left, right)
      [] OTHER                -> Err("Uknown calculation result", vs)

executer_binary(vs, left, operator, right) ==
    LET computed_left  == execute_ast(vs, left)
        computed_right == execute_ast(computed_left.vars, right)
    IN  IF ~computed_left.ok THEN computed_left
        ELSE IF ~computed_right.ok THEN computed_right
        ELSE calculate(binary_handler(computed_left.val.t, computed_right.val.t),
                       computed_right.vars, operator,
                       computed_left.val, computed_right.val)

execute_ast(vs, ast) ==
    CASE ast.t = "Binary"     -> executer_binary(vs, ast.left, ast.operator, ast.right)
      [] ast.t = "Assignment" -> executer_assignment(vs, ast.index, ast.expression)
      [] ast.t = "Variable"   -> executer_variable(vs, ast.index)
      [] ast.t = "Percent"    -> Ok(ast, vs)
      [] ast.t = "Number"     -> Ok(ast, vs)
      [] ast.t = "Time"       -> Ok(ast, vs)
      [] ast.t = "Date"       -> Ok(ast, vs)
      [] ast.t = "Money"      -> Ok(ast, vs)
      [] ast.t = "Duration"   -> Ok(ast, vs)
      [] OTHER                -> Ok(AstNone, vs)

(***************************************************************************)
(* A line of the input, as far as execute distinguishes lines: an empty    *)
(* line, a line Tokinizer::tokinize rejects, a line SyntaxParser::parse    *)
(* rejects, or a line that parses.  A parsed line is given by the name it  *)
(* assigns to ("" for none) and its expression, in which a variable is     *)
(* referenced by name.                                                     *)
(***************************************************************************)
Names == {"a", "b"}

NameRef(name) == [t |-> "Name", name |-> name]

One == Int2Rat(1)
Two == Int2Rat(2)

EmptyLine    == [kind |-> "empty",    assign |-> "", expr |-> AstNone]
TokErrLine   == [kind |-> "tokerr",   assign |-> "", expr |-> AstNone]
ParseErrLine == [kind |-> "parseerr", assign |-> "", expr |-> AstNone]
OkLine(name, expr) == [kind |-> "ok", assign |-> name, expr |-> expr]

Defined(vs) == {vs[i].name : i \in 1..Len(vs)}

\* the expressions a line may hold: text that names no existing variable is
\* no reference, so references are to the variables defined so far
Exprs(vs) ==
    {AstNumber(One), AstNumber(Two)}
    \cup {NameRef(v) : v \in Defined(vs)}
    \cup {AstBinary(NameRef(v), "+", AstNumber(One)) : v \in Defined(vs)}
    \cup {AstBinary(AstPercent(One), "+", AstPercent(One))}

LineInputs(vs) ==
    {EmptyLine, TokErrLine, ParseErrLine}
    \cup {OkLine(name, e) : name \in Names \cup {""}, e \in Exprs(vs)}

(***************************************************************************)
(* Variable binding and parsing.  Token::update_for_variable and the       *)
(* syntax parsers are not part of the sources at hand; they are modelled   *)
(* from the specification: a reference becomes a Variable node of the      *)
(* existing variable, and an assignment allocates its variable (with an    *)
(* empty cell) or reuses the one of the same name.                         *)
(***************************************************************************)
IndexOf(vs, name) == CHOOSE i \in 1..Len(vs) : vs[i].name = name

RECURSIVE update_for_variable(_, _)
update_for_variable(vs, e) ==
    CASE e.t = "Name"   -> AstVariable(IndexOf(vs, e.name))
      [] e.t = "Binary" -> AstBinary(update_for_variable(vs, e.left), e.operator,
                                     update_for_variable(vs, e.right))
      [] OTHER          -> e

Allocate(vs, name) ==
    IF name \in Defined(vs) THEN vs
    ELSE Append(vs, [name |-> name, data |-> AstNone])

SyntaxParser_parse(vs, line) ==
    LET bound == update_for_variable(vs, line.expr)
        nvs   == Allocate(vs, line.assign)
    IN  IF line.kind = "parseerr" THEN [ok |-> FALSE, ast |-> AstNone, vars |-> vs]
        ELSE IF line.assign = "" THEN [ok |-> TRUE, ast |-> bound, vars |-> vs]
        ELSE [ok |-> TRUE, ast |-> AstAssignment(IndexOf(nvs, line.assign), bound),
              vars |-> nvs]

(***************************************************************************)
(* execute (executer/mod.rs): the body of the loop over data.lines().      *)
(* It says what the iteration pushes to results and to storage.asts, the   *)
(* storage it leaves, and the stages of the pipeline the line reached.     *)
(***************************************************************************)
ResultOk(tokens, value) == [ok |-> TRUE,  tokens |-> tokens, val |-> value, err |-> ""]
ResultErr(error)        == [ok |-> FALSE, tokens |-> <<>>,  val |-> AstNone, err |-> error]

\* the original tokens of a line, kept as the line they were cut from
OriginalTokens(line) == <<line>>

Iteration(pr, result, pa, ast, vs, st, failed) ==
    [push_result |-> pr, result |-> result, push_ast |-> pa, ast |-> ast,
     vars |-> vs, stages |-> st, failed |-> failed]

loop_body(vs, line) ==
    LET parsed == SyntaxParser_parse(vs, line)
        value  == execute_ast(parsed.vars, parsed.ast)
    IN  IF line.kind = "empty"
        THEN Iteration(TRUE, ResultOk(<<>>, AstNone), TRUE, AstNone, vs,
                       <<"prepare">>, FALSE)
        ELSE IF line.kind = "tokerr"
        THEN Iteration(TRUE, ResultErr("tokinize"), TRUE, AstNone, vs,
                       <<"prepare", "tokinize">>, TRUE)
        ELSE IF ~parsed.ok
        THEN Iteration(FALSE, ResultErr("parse"), FALSE, AstNone, parsed.vars,
                       <<"prepare", "tokinize", "parse">>, TRUE)
        ELSE IF value.ok
        THEN Iteration(TRUE, ResultOk(OriginalTokens(line), value.val), TRUE,
                       parsed.ast, value.vars,
                       <<"prepare", "tokinize", "parse", "interpret">>, FALSE)
        ELSE Iteration(TRUE, ResultErr(value.err), TRUE, parsed.ast, value.vars,
                       <<"prepare", "tokinize", "parse", "interpret">>, TRUE)

\* variant: a line that fails ends the loop
next_iteration_abort(iteration) == IF iteration.failed THEN "done" ELSE "loop"

\* after the body, whatever it did, the for loop goes on to the next line
next_iteration(iteration) == "loop"

ExecuteLine ==
    /\ pc = "loop"
    /\ Len(processed) < lines_total
    /\ \E line \in LineInputs(variables) :
          LET it == loop_body(variables, line)
          IN  /\ processed' = Append(processed, line)
              /\ results'   = IF it.push_result THEN Append(results, it.result)
                              ELSE results
              /\ asts'      = IF it.push_ast THEN Append(asts, it.ast) ELSE asts
              /\ variables' = it.vars
              /\ trace'     = Append(trace,
                                 [reached |-> it.stages, failed |-> it.failed,
                                  result  |-> IF it.push_result
                                              THEN Len(results) + 1 ELSE 0,
                                  ast     |-> IF it.push_ast
                                              THEN Len(asts) + 1 ELSE 0,
                                  before  |-> variables, after |-> it.vars])
              /\ pc'        = next_iteration(it)
    /\ UNCHANGED <<calc_vars, lines_total, tok_vars, ui_vars, rule_vars>>

ExecuteReturn ==
    /\ pc = "loop"
    /\ Len(processed) = lines_total
    /\ pc' = "done"
    /\ UNCHANGED <<calc_vars, lines_total, processed, results, asts, variables, trace,
                   tok_vars, ui_vars, rule_vars>>

IdleTok  == /\ token_locations = <<>> /\ tok_category = 1 /\ tok_pc = "idle"
IdleUi   == /\ ui_text = <<>> /\ ui_tokens = <<>> /\ char_sizes = <<>>
            /\ ui_last = [op |-> "none"]
IdleRule == /\ rules = <<>> /\ rule_locations = <<>> /\ execute_rules = FALSE
            /\ rule_index = 1 /\ pattern_index = 1 /\ rule_pc = "idle"
            /\ passes = 0 /\ last_fire = [fired |-> FALSE, error |-> FALSE]
IdleCalc == /\ calc_call = [fn |-> "none"] /\ calc_ret = [fn |-> "none"]
            /\ calc_pc = "idle"
IdleExec == /\ lines_total = 0 /\ processed = <<>> /\ results = <<>>
            /\ asts = <<>> /\ variables = <<>> /\ trace = <<>> /\ pc = "idle"

Init ==
    /\ lines_total \in 0..MaxLines
    /\ processed = <<>> /\ results = <<>> /\ asts = <<>> /\ variables = <<>>
    /\ trace = <<>> /\ pc = "loop"
    /\ IdleTok /\ IdleUi /\ IdleRule /\ IdleCalc

Next == ExecuteLine \/ ExecuteReturn

Spec == Init /\ [][Next]_vars

(***************************************************************************)
(* Claims about execute and the session.                                   *)
(***************************************************************************)
Lines == 1..Len(processed)

ResultOf(i) == results[trace[i].result]
IsAssignLine(i) == processed[i].kind = "ok" /\ processed[i].assign # ""
CellAfter(i, name) == trace[i].after[IndexOf(trace[i].after, name)].data

\* the outcome execute owes line i
OutcomeMatches(i, result) ==
    CASE processed[i].kind = "empty" -> result = ResultOk(<<>>, AstNone)
      [] processed[i].kind = "ok"    -> result.ok = ~trace[i].failed
      [] OTHER                       -> ~result.ok

\* C1: execute returns exactly one result per input line, in input order:
\* after k lines the results list has k entries and entry i is the outcome of
\* line i, be the line empty, successful, or failed at tokenization, parsing
\* or interpretation.
C1_OneResultPerLine ==
    /\ Len(results) = Len(processed)
    /\ \A i \in Lines : i <= Len(results) => OutcomeMatches(i, results[i])

\* C2: the session's ast list gets exactly one entry per processed line, in
\* line order, and the entry of every line that failed is None.
C2_OneAstPerLine ==
    /\ Len(asts) = Len(processed)
    /\ \A i \in Lines : (i <= Len(asts) /\ trace[i].failed) => asts[i] = AstNone

ExpectedStages(line) ==
    CASE line.kind = "empty"    -> <<"prepare">>
      [] line.kind = "tokerr"   -> <<"prepare", "tokinize">>
      [] line.kind = "parseerr" -> <<"prepare", "tokinize", "parse">>
      [] OTHER                  -> <<"prepare", "tokinize", "parse", "interpret">>

CellsKept(i) ==
    /\ Len(trace[i].after) >= Len(trace[i].before)
    /\ \A j \in 1..Len(trace[i].before) :
          trace[i].after[j].data = trace[i].before[j].data

AssignedBefore(k, name) ==
    {j \in 1..(k - 1) : IsAssignLine(j) /\ processed[j].assign = name
                        /\ ~trace[j].failed}

LatestStored(k, name) ==
    IF AssignedBefore(k, name) = {} THEN AstNone
    ELSE LET j == CHOOSE m \in AssignedBefore(k, name) :
                      \A n \in AssignedBefore(k, name) : n <= m
         IN  ResultOf(j).val

\* the value of line i's right side in the storage the line found
RightSide(i) ==
    execute_ast(Allocate(trace[i].before, processed[i].assign),
                update_for_variable(trace[i].before, processed[i].expr))

\* C4: an assignment evaluates its right side, stores the result in the cell
\* of its variable and returns that same result; a reference to a variable on
\* a later line evaluates to the value most recently stored in its cell.
C4_AssignThenRead ==
    \A i \in Lines :
        /\ (IsAssignLine(i) /\ ~trace[i].failed) =>
              /\ RightSide(i).ok
              /\ ResultOf(i).val = RightSide(i).val
              /\ CellAfter(i, processed[i].assign) = ResultOf(i).val
        /\ \A name \in Names :
              processed[i] = OkLine("", NameRef(name)) =>
                  /\ ~trace[i].failed
                  /\ ResultOf(i).val = LatestStored(i, name)

\* two assignments to one variable, then a reference that reads the second
C4_Witness ==
    \E i, j, k \in Lines :
        /\ i < j /\ j < k
        /\ IsAssignLine(i) /\ IsAssignLine(j)
        /\ processed[i].assign = "a" /\ processed[j].assign = "a"
        /\ ~trace[i].failed /\ ~trace[j].failed
        /\ ResultOf(i).val # ResultOf(j).val
        /\ processed[k] = OkLine("", NameRef("a"))
        /\ ResultOf(k).val = ResultOf(j).val

RECURSIVE Mentions(_, _)
Mentions(e, name) ==
    CASE e.t = "Name"   -> e.name = name
      [] e.t = "Binary" -> Mentions(e.left, name) \/ Mentions(e.right, name)
      [] OTHER          -> FALSE

RepeatedAssign(i) ==
    /\ i > 1 /\ IsAssignLine(i) /\ processed[i] = processed[i - 1]
    /\ ~trace[i].failed /\ ~trace[i - 1].failed

\* C5 (as claimed): evaluating the same assignment line twice leaves the same
\* value in the variable's cell after the second evaluation as after the first.
C5_AssignIdempotent ==
    \A i \in Lines :
        RepeatedAssign(i) =>
            CellAfter(i, processed[i].assign) = CellAfter(i - 1, processed[i].assign)

\* C5 (amended): evaluating twice in a row the same assignment line whose
\* right side does not reference the assigned variable leaves the same value
\* in the variable's cell after the second evaluation as after the first.
C5_AssignIdempotentNoSelfRef ==
    \A i \in Lines :
        (RepeatedAssign(i) /\ ~Mentions(processed[i].expr, processed[i].assign)) =>
            CellAfter(i, processed[i].assign) = CellAfter(i - 1, processed[i].assign)

\* b = a + 1 evaluated twice in a row, with a holding a number
C5_Witness ==
    \E i \in Lines :
        /\ RepeatedAssign(i)
        /\ processed[i] = OkLine("b", AstBinary(NameRef("a"), "+", AstNumber(One)))
        /\ CellAfter(i, "b").t = "Number"

AstsOfLine(i) == IF trace[i].ast = 0 THEN AstNone ELSE asts[trace[i].ast]

SameList(vs, ws) ==
    /\ Len(ws) = Len(vs)
    /\ \A j \in 1..Len(vs) : ws[j].name = vs[j].name

\* C6: the variable list is append-only with stable indices: no line shrinks
\* or reorders it, the index held by an Assignment node is always a valid
\* index of the variable the line named, and interpreting a stored ast
\* changes cell contents only, never the list.
C6_VariablesAppendOnly ==
    /\ \A i \in Lines :
          /\ Len(trace[i].after) >= Len(trace[i].before)
          /\ \A j \in 1..Len(trace[i].before) :
                trace[i].after[j].name = trace[i].before[j].name
          /\ AstsOfLine(i).t = "Assignment" =>
                /\ AstsOfLine(i).index \in 1..Len(variables)
                /\ variables[AstsOfLine(i).index].name = processed[i].assign
    /\ Len(processed) > 0 => variables = trace[Len(processed)].after
    /\ \A k \in 1..Len(asts) : SameList(variables, execute_ast(variables, asts[k]).vars)

\* two variables exist, and a later line assigned the first one again
C6_Witness ==
    /\ Len(variables) = 2
    /\ \E i, j \in Lines :
          /\ i < j
          /\ AstsOfLine(i).t = "Assignment" /\ AstsOfLine(j).t = "Assignment"
          /\ AstsOfLine(i).index = 1 /\ AstsOfLine(j).index = 1
          /\ Len(trace[i].before) = 0 /\ Len(trace[j].before) = 2
          /\ ~trace[j].failed

(***************************************************************************)
(* Tokinizer::tokinize_with_regex (tokinizer/mod.rs).  The regex parsers   *)
(* of TOKEN_REGEX_PARSER run in order; each offers the spans of its        *)
(* matches, in byte offsets of the line, to add_token_location.  After     *)
(* the last parser the untyped locations are dropped and the list is       *)
(* sorted by start.                                                        *)
(***************************************************************************)
MaxText == 3

NumCategories == 10

TokenTypeOptions == {"None", "Number", "Text"}

TokenLocation(start, end, token_type) ==
    [start |-> start, end |-> end, token_type |-> token_type, status |-> "Active"]

\* variant: only the start of the span is looked at
Collides_start_only(items, start, end) ==
    \E i \in 1..Len(items) : items[i].start <= start /\ items[i].end > start

\* some item of the list covers the start or the end of the span
Collides(items, start, end) ==
    \E i \in 1..Len(items) :
        \/ items[i].start <= start /\ items[i].end > start
        \/ items[i].start < end /\ items[i].end >= end

add_token_location(items, start, end, token_type) ==
    IF Collides(items, start, end)
    THEN [added |-> FALSE, tokens |-> items]
    ELSE [added |-> TRUE,
          tokens |-> Append(items, TokenLocation(start, end, token_type))]

\* sort_by on start is stable: an item goes behind the items that start no later
RECURSIVE InsertByStart(_, _)
InsertByStart(sorted, item) ==
    IF sorted = <<>> THEN <<item>>
    ELSE IF sorted[Len(sorted)].start <= item.start THEN Append(sorted, item)
    ELSE Append(InsertByStart(SubSeq(sorted, 1, Len(sorted) - 1), item),
                sorted[Len(sorted)])

RECURSIVE SortByStart(_)
SortByStart(items) ==
    IF items = <<>> THEN <<>>
    ELSE InsertByStart(SortByStart(SubSeq(items, 1, Len(items) - 1)),
                       items[Len(items)])

RetainTyped(items) == SelectSeq(items, LAMBDA x : x.token_type # "None")

\* one match of the running regex parser is offered
AddTokenLocation ==
    /\ tok_pc = "parsers"
    /\ \E start \in 0..MaxText, end \in 0..MaxText, tt \in TokenTypeOptions :
          /\ start < end
          /\ token_locations' = add_token_location(token_locations, start, end, tt).tokens
          /\ calc_call' = [fn |-> "add_token_location", start |-> start, end |-> end]
          /\ calc_ret' = [fn |-> "add_token_location",
                          added |-> add_token_location(token_locations, start, end, tt).added]
    /\ UNCHANGED <<calc_pc, tok_category, tok_pc, exec_vars, ui_vars, rule_vars>>

\* the for loop over TOKEN_REGEX_PARSER goes on to the next parser
NextParser ==
    /\ tok_pc = "parsers"
    /\ tok_category < NumCategories
    /\ tok_category' = tok_category + 1
    /\ UNCHANGED <<calc_vars, token_locations, tok_pc, exec_vars, ui_vars, rule_vars>>

\* after the last parser: retain the typed locations, sort by start
FinishTokinize ==
    /\ tok_pc = "parsers"
    /\ tok_category = NumCategories
    /\ token_locations' = SortByStart(RetainTyped(token_locations))
    /\ tok_pc' = "done"
    /\ UNCHANGED <<calc_vars, tok_category, exec_vars, ui_vars, rule_vars>>

InitTok ==
    /\ token_locations = <<>> /\ tok_category = 1 /\ tok_pc = "parsers"
    /\ IdleExec /\ IdleUi /\ IdleRule /\ IdleCalc

NextTok == AddTokenLocation \/ NextParser \/ FinishTokinize

SpecTok == InitTok /\ [][NextTok]_vars

Overlap(x, y) == x.start < y.end /\ y.start < x.end

\* C7: after tokinize_with_regex, for any sequence of candidate matches, the
\* token list holds only typed tokens, is sorted by start, and its active
\* spans are pairwise non-overlapping.
C7_TypedSortedDisjoint ==
    tok_pc = "done" =>
        /\ \A i \in 1..Len(token_locations) : token_locations[i].token_type # "None"
        /\ \A i, j \in 1..Len(token_locations) :
              i < j => token_locations[i].start <= token_locations[j].start
        /\ \A i, j \in 1..Len(token_locations) :
              i # j => ~Overlap(token_locations[i], token_locations[j])

(***************************************************************************)
(* UiTokenCollection (token/ui_token.rs).  The text is given by the utf-8  *)
(* length of each of its characters; positions handed to                   *)
(* add_from_regex_match and update_tokens are byte offsets of the text.    *)
(***************************************************************************)
MaxChars == 2

MaxUiTokens == 2

\* one-byte and two-byte characters
CharLens == {1, 2}

Texts == UNION {[1..n -> CharLens] : n \in 1..MaxChars}

Positions == 0..(2 * MaxChars)

UiTypes == {"Text", "VariableDefination"}

UiToken(start, end, ui_type) == [start |-> start, end |-> end, ui_type |-> ui_type]

RECURSIVE Repeat(_, _)
Repeat(x, n) == IF n = 0 THEN <<>> ELSE Append(Repeat(x, n - 1), x)

\* for each character, by index from 0, its index once per byte
RECURSIVE generate_char_map(_, _)
generate_char_map(sizes, text) ==
    IF text = <<>> THEN sizes
    ELSE generate_char_map(sizes, SubSeq(text, 1, Len(text) - 1))
             \o Repeat(Len(text) - 1, text[Len(text)])

get_position(sizes, index) ==
    IF index < Len(sizes) THEN sizes[index + 1]
    ELSE IF Len(sizes) = index THEN index
    ELSE 0

check_collision(tokens, start_position, end_position) ==
    \A i \in 1..Len(tokens) :
        /\ ~(tokens[i].start <= start_position /\ tokens[i].end > start_position)
        /\ ~(tokens[i].start < end_position /\ tokens[i].end >= end_position)

add(tokens, start, end, ui_type) ==
    IF check_collision(tokens, start, end)
    THEN Append(tokens, UiToken(start, end, ui_type))
    ELSE tokens

NoCapture == [some |-> FALSE, start |-> 0, end |-> 0]
Capture(start, end) == [some |-> TRUE, start |-> start, end |-> end]

add_from_regex_match(tokens, sizes, capture, token_type) ==
    IF capture.some /\ capture.start < capture.end
       /\ check_collision(tokens, capture.start, capture.end)
    THEN Append(tokens, UiToken(get_position(sizes, capture.start),
                                get_position(sizes, capture.end), token_type))
    ELSE tokens

Min(S) == CHOOSE x \in S : \A y \in S : x <= y

RemoveRange(tokens, from, to) ==
    SubSeq(tokens, 1, from - 1) \o SubSeq(tokens, to + 1, Len(tokens))

InsertAt(tokens, at, item) ==
    SubSeq(tokens, 1, at - 1) \o <<item>> \o SubSeq(tokens, at, Len(tokens))

\* drain(a..b) panics when a > b; indices here count from 1
update_tokens(tokens, sizes, position_start, position_end, new_type) ==
    LET ui_start_position == get_position(sizes, position_start)
        ui_end_position   == get_position(sizes, position_end)
        starts == {i \in 1..Len(tokens) : tokens[i].start = ui_start_position}
        ends   == {i \in 1..Len(tokens) : tokens[i].end = ui_end_position}
        ui_start_index == Min(starts)
        index          == Min(ends)
    IN  IF starts = {} \/ ends = {} THEN [panic |-> FALSE, tokens |-> tokens]
        ELSE IF ui_start_index > index + 1 THEN [panic |-> TRUE, tokens |-> tokens]
        ELSE [panic |-> FALSE,
              tokens |-> InsertAt(RemoveRange(tokens, ui_start_index, index),
                                  ui_start_index,
                                  UiToken(ui_start_position, ui_end_position, new_type))]

\* byte offsets at which a character of the text starts, and the end of the text
RECURSIVE ByteLen(_)
ByteLen(text) ==
    IF text = <<>> THEN 0 ELSE ByteLen(SubSeq(text, 1, Len(text) - 1)) + text[Len(text)]

Boundaries(text) == {ByteLen(SubSeq(text, 1, n)) : n \in 0..Len(text)}

UiRunning == ui_last.op # "panic"

GenerateCharMap ==
    /\ UiRunning
    /\ char_sizes = <<>>
    /\ \E text \in Texts :
          /\ ui_text' = text
          /\ char_sizes' = generate_char_map(char_sizes, text)
    /\ ui_last' = [op |-> "generate_char_map"]
    /\ UNCHANGED <<calc_vars, ui_tokens, exec_vars, tok_vars, rule_vars>>

UiAdd ==
    /\ UiRunning
    /\ Len(ui_tokens) < MaxUiTokens
    /\ \E start \in Positions, end \in Positions, ui_type \in UiTypes :
          /\ start < end
          /\ ui_tokens' = add(ui_tokens, start, end, ui_type)
          /\ ui_last' = [op |-> "add", start |-> start, end |-> end,
                         added |-> Len(ui_tokens') > Len(ui_tokens)]
    /\ UNCHANGED <<calc_vars, ui_text, char_sizes, exec_vars, tok_vars, rule_vars>>

UiAddFromRegexMatch ==
    /\ UiRunning
    /\ Len(ui_tokens) < MaxUiTokens
    /\ char_sizes # <<>>
    /\ \E capture \in {NoCapture} \cup
                      {Capture(b, e) : b \in Boundaries(ui_text), e \in Boundaries(ui_text)},
          ui_type \in UiTypes :
          /\ capture.start <= capture.end
          /\ ui_tokens' = add_from_regex_match(ui_tokens, char_sizes, capture, ui_type)
          /\ ui_last' = [op |-> "add_from_regex_match", start |-> capture.start,
                         end |-> capture.end,
                         added |-> Len(ui_tokens') > Len(ui_tokens)]
    /\ UNCHANGED <<calc_vars, ui_text, char_sizes, exec_vars, tok_vars, rule_vars>>

UiUpdateTokens ==
    /\ UiRunning
    /\ Len(ui_tokens) <= MaxUiTokens
    /\ \E position_start \in Positions, position_end \in Positions :
          LET r == update_tokens(ui_tokens, char_sizes, position_start,
                                 position_end, "VariableDefination")
          IN  /\ ui_tokens' = r.tokens
              /\ ui_last' = IF r.panic THEN [op |-> "panic"]
                            ELSE [op |-> "update_tokens", start |-> position_start,
                                  end |-> position_end, added |-> FALSE,
                                  tokens |-> ui_tokens]
    /\ UNCHANGED <<calc_vars, ui_text, char_sizes, exec_vars, tok_vars, rule_vars>>

InitUi ==
    /\ ui_text = <<>> /\ ui_tokens = <<>> /\ char_sizes = <<>>
    /\ ui_last = [op |-> "none"]
    /\ IdleExec /\ IdleTok /\ IdleRule /\ IdleCalc

NextUi == GenerateCharMap \/ UiAdd \/ UiAddFromRegexMatch \/ UiUpdateTokens

SpecUi == InitUi /\ [][NextUi]_vars

\* C8: after any sequence of add, add_from_regex_match and update_tokens
\* calls the stored UI token spans are pairwise non-overlapping and ordered
\* by start; an add that collides with a stored token is refused.
C8_UiDisjointSorted ==
    /\ \A i, j \in 1..Len(ui_tokens) :
          i # j => ~Overlap(ui_tokens[i], ui_tokens[j])
    /\ \A i, j \in 1..Len(ui_tokens) :
          i < j => ui_tokens[i].start <= ui_tokens[j].start

\* the number of characters of the text that start before byte offset b
CharsBefore(text, b) ==
    Cardinality({n \in 1..Len(text) : ByteLen(SubSeq(text, 1, n - 1)) < b})

\* C9: the UiToken stored by add_from_regex_match has start and end equal to
\* the number of characters that precede the match's byte start and byte end,
\* also for a match that ends at the end of the text.
C9_CharPositions ==
    (ui_last.op = "add_from_regex_match" /\ ui_last.added) =>
        /\ ui_tokens[Len(ui_tokens)].start = CharsBefore(ui_text, ui_last.start)
        /\ ui_tokens[Len(ui_tokens)].end = CharsBefore(ui_text, ui_last.end)

(***************************************************************************)
(* Tokinizer::apply_rules (tokinizer/mod.rs).  A rule pack is a list of    *)
(* (function, tokens_list) pairs; a pattern is a list of token types and a *)
(* token matches a pattern item when their types are equal.  A function is *)
(* given by what it returns: "err" or the type of the new token.           *)
(***************************************************************************)
MaxTokens == 3

MaxFirings == 4

Alphabet == {"a", "b"}

Handlers == {"err"} \cup Alphabet

Patterns == {<<x>> : x \in Alphabet} \cup {<<x, y>> : x \in Alphabet, y \in Alphabet}

Rule(function, tokens_list) == [function |-> function, tokens_list |-> tokens_list]

RulePacks ==
    {<<Rule(f, <<p, q>>), Rule(g, <<r>>)>> :
        f \in Handlers, g \in Handlers, p \in Patterns, q \in Patterns, r \in Patterns}

RuleToken(start, end, token_type, original_text, status) ==
    [start |-> start, end |-> end, token_type |-> token_type,
     original_text |-> original_text, status |-> status]

\* the tokens of a text: unit spans in text order, all Active
TokenLists ==
    {[i \in 1..Len(w) |-> RuleToken(i - 1, i, w[i], w[i], "Active")] :
        w \in UNION {[1..n -> Alphabet] : n \in 1..MaxTokens}}

NoFields == [x \in Alphabet |-> 0]

\* the loop of lines 195-255; indices count from 0 as in the source
RECURSIVE matching_loop(_, _, _, _, _, _)
matching_loop(tokens, rule_tokens, rule_token_index, target_token_index, start_token_index, fields) ==
    IF target_token_index >= Len(tokens)
    THEN [rule_token_index |-> rule_token_index,
          target_token_index |-> target_token_index,
          start_token_index |-> start_token_index, fields |-> fields]
    ELSE LET token == tokens[target_token_index + 1]
         IN  IF token.status = "Removed"
             THEN matching_loop(tokens, rule_tokens, rule_token_index,
                                target_token_index + 1, start_token_index, fields)
             ELSE IF token.token_type = rule_tokens[rule_token_index + 1]
             THEN LET f2 == [fields EXCEPT ![token.token_type] = target_token_index + 1]
                  IN  IF rule_token_index + 1 = Len(rule_tokens)
                      THEN [rule_token_index |-> rule_token_index + 1,
                            target_token_index |-> target_token_index + 1,
                            start_token_index |-> start_token_index, fields |-> f2]
                      ELSE matching_loop(tokens, rule_tokens, rule_token_index + 1,
                                         target_token_index + 1, start_token_index, f2)
             ELSE matching_loop(tokens, rule_tokens, 0, target_token_index + 1,
                                target_token_index + 1, fields)

try_pattern(tokens, rule_tokens) == matching_loop(tokens, rule_tokens, 0, 0, 0, NoFields)

Matched(tokens, rule_tokens) ==
    try_pattern(tokens, rule_tokens).rule_token_index = Len(rule_tokens)

\* a firing that leaves the matched tokens Active
fire_keep(tokens, start_token_index, target_token_index, token) ==
    SubSeq(tokens, 1, start_token_index)
        \o <<RuleToken(tokens[start_token_index + 1].start,
                       tokens[target_token_index].end, token, "", "Active")>>
        \o SubSeq(tokens, start_token_index + 1, Len(tokens))

\* lines 268-282: flag start..target Removed, insert the new token at start
fire(tokens, start_token_index, target_token_index, token) ==
    LET text_start_position == tokens[start_token_index + 1].start
        text_end_position   == tokens[target_token_index].end
        flagged == [i \in 1..Len(tokens) |->
                       IF i - 1 >= start_token_index /\ i - 1 < target_token_index
                       THEN [tokens[i] EXCEPT !.status = "Removed"]
                       ELSE tokens[i]]
    IN  SubSeq(flagged, 1, start_token_index)
            \o <<RuleToken(text_start_position, text_end_position, token, "", "Active")>>
            \o SubSeq(flagged, start_token_index + 1, Len(flagged))

ActiveCount(tokens) == Cardinality({i \in 1..Len(tokens) : tokens[i].status = "Active"})

Firings(tokens) == Cardinality({i \in 1..Len(tokens) : tokens[i].original_text = ""})

CurrentRule == rules[rule_index]
CurrentPattern == CurrentRule.tokens_list[pattern_index]

\* variant: the remaining patterns of the rule are skipped
NextPattern_break ==
    /\ pattern_index' = 1
    /\ rule_index' = rule_index + 1
    /\ rule_pc' = IF rule_index < Len(rules) THEN "for" ELSE "while"

\* the for loops of lines 185 and 187: next pattern of the rule, else next rule
NextPattern ==
    IF pattern_index < Len(CurrentRule.tokens_list)
    THEN /\ pattern_index' = pattern_index + 1
         /\ rule_index' = rule_index
         /\ rule_pc' = "for"
    ELSE /\ pattern_index' = 1
         /\ rule_index' = rule_index + 1
         /\ rule_pc' = IF rule_index < Len(rules) THEN "for" ELSE "while"

\* the break of line 283 leaves the pattern loop of the rule
NextRule ==
    /\ pattern_index' = 1
    /\ rule_index' = rule_index + 1
    /\ rule_pc' = IF rule_index < Len(rules) THEN "for" ELSE "while"

BeginPass ==
    /\ rule_pc = "while"
    /\ execute_rules
    /\ execute_rules' = FALSE
    /\ rule_index' = 1 /\ pattern_index' = 1
    /\ rule_pc' = "for"
    /\ passes' = passes + 1
    /\ last_fire' = [fired |-> FALSE, error |-> FALSE]
    /\ UNCHANGED <<calc_vars, rules, rule_locations, exec_vars, tok_vars, ui_vars>>

ApplyRulesReturn ==
    /\ rule_pc = "while"
    /\ ~execute_rules
    /\ rule_pc' = "done"
    /\ last_fire' = [fired |-> FALSE, error |-> FALSE]
    /\ UNCHANGED <<calc_vars, rules, rule_locations, execute_rules, rule_index, pattern_index,
                   passes, exec_vars, tok_vars, ui_vars>>

PatternNoMatch ==
    /\ rule_pc = "for"
    /\ ~Matched(rule_locations, CurrentPattern)
    /\ NextPattern
    /\ last_fire' = [fired |-> FALSE, error |-> FALSE]
    /\ UNCHANGED <<calc_vars, rules, rule_locations, execute_rules, passes,
                   exec_vars, tok_vars, ui_vars>>

PatternHandlerErr ==
    /\ rule_pc = "for"
    /\ Matched(rule_locations, CurrentPattern)
    /\ CurrentRule.function = "err"
    /\ NextPattern
    /\ last_fire' = [fired |-> FALSE, error |-> TRUE]
    /\ UNCHANGED <<calc_vars, rules, rule_locations, execute_rules, passes,
                   exec_vars, tok_vars, ui_vars>>

PatternFire ==
    /\ rule_pc = "for"
    /\ Matched(rule_locations, CurrentPattern)
    /\ CurrentRule.function # "err"
    /\ Firings(rule_locations) < MaxFirings
    /\ LET m == try_pattern(rule_locations, CurrentPattern)
       IN  /\ rule_locations' = fire(rule_locations, m.start_token_index,
                                     m.target_token_index, CurrentRule.function)
           /\ last_fire' = [fired |-> TRUE, error |-> FALSE,
                            before |-> ActiveCount(rule_locations),
                            after |-> ActiveCount(rule_locations'),
                            total_rule_token |-> Len(CurrentPattern),
                            tokens |-> rule_locations,
                            target_token_index |-> m.target_token_index,
                            token |-> CurrentRule.function]
    /\ execute_rules' = TRUE
    /\ NextRule
    /\ UNCHANGED <<calc_vars, rules, passes, exec_vars, tok_vars, ui_vars>>

InitRules ==
    /\ rules \in RulePacks
    /\ rule_locations \in TokenLists
    /\ execute_rules = TRUE
    /\ rule_index = 1 /\ pattern_index = 1
    /\ rule_pc = "while"
    /\ passes = 0
    /\ last_fire = [fired |-> FALSE, error |-> FALSE]
    /\ IdleExec /\ IdleTok /\ IdleUi /\ IdleCalc

NextRules ==
    BeginPass \/ ApplyRulesReturn \/ PatternNoMatch \/ PatternHandlerErr \/ PatternFire

SpecRules == InitRules /\ [][NextRules]_vars

\* every firing so far strictly decreased the number of active tokens
StrictDecrease == last_fire.fired => last_fire.after < last_fire.before

\* the number of tokens the list started with
InitialActive == Len(rule_locations) - Firings(rule_locations)

\* a strictly decreasing active count allows at most one firing pass per
\* initial token, and one last pass without a firing
PassBound == passes <= InitialActive + 1

\* C10: the rule engine terminates for every token list and every rule pack:
\* each firing strictly decreases the number of active tokens, so the number
\* of passes of apply_rules is bounded by the initial number of tokens.
C10_FiringsDecreaseActive == StrictDecrease /\ PassBound

(***************************************************************************)
(* One evaluation of a binary operation by Interpreter::executer_binary,   *)
(* for operands of every type and every operator.                          *)
(***************************************************************************)
NumberOperands   == {AstNumber(Int2Rat(0)), AstNumber(Int2Rat(2)), AstNumber(Int2Rat(120))}
PercentOperands  == {AstPercent(Int2Rat(0)), AstPercent(Int2Rat(10)), AstPercent(Int2Rat(30))}
MoneyOperands    == {AstMoney(Int2Rat(0), "usd"), AstMoney(Int2Rat(10), "usd"),
                     AstMoney(Int2Rat(4), "try")}
TimeOperands     == {AstTime(0), AstTime(11 * HOUR + 30 * MINUTE), AstTime(DAY - 1)}
DurationOperands == {AstDuration(-HOUR), AstDuration(0), AstDuration(HOUR),
                     AstDuration(25 * HOUR + 61), AstDuration(-(DAY + 90))}
DateOperands     == {AstDate(Date(2021, 1, 31)), AstDate(Date(2020, 11, 5))}

Operands == NumberOperands \cup PercentOperands \cup MoneyOperands
                \cup TimeOperands \cup DurationOperands \cup DateOperands

\* an operand that is itself an operation: 120 + 30%, a time plus a duration
NestedOperands ==
    {AstBinary(AstNumber(Int2Rat(120)), "+", AstPercent(Int2Rat(30)))}
    \cup {AstBinary(t, "+", d) : t \in TimeOperands,
                                 d \in {x \in DurationOperands : Abs(x.duration) < DAY}}

\* '^' stands for the operators no handler knows
Operators == {"+", "-", "*", "/", "^"}

NoVariables == <<>>

BinaryCall(left, operator, right) ==
    [fn |-> "executer_binary", left |-> left, operator |-> operator, right |-> right]

CallBinary ==
    /\ calc_pc = "call"
    /\ calc_call.fn = "executer_binary"
    /\ LET computed_left  == execute_ast(NoVariables, calc_call.left)
           computed_right == execute_ast(NoVariables, calc_call.right)
       IN  calc_ret' = [fn |-> "executer_binary",
                        left |-> computed_left.val,
                        right |-> computed_right.val,
                        handler |-> binary_handler(computed_left.val.t, computed_right.val.t),
                        result |-> executer_binary(NoVariables, calc_call.left,
                                                   calc_call.operator, calc_call.right)]
    /\ calc_pc' = "return"
    /\ UNCHANGED <<calc_call, exec_vars, tok_vars, ui_vars, rule_vars>>

InitBinary ==
    /\ calc_call \in {BinaryCall(l, o, r) : l \in Operands \cup NestedOperands,
                                            o \in Operators, r \in Operands}
    /\ calc_ret = [fn |-> "none"]
    /\ calc_pc = "call"
    /\ IdleExec /\ IdleTok /\ IdleUi /\ IdleRule

NextBinary == CallBinary

SpecBinary == InitBinary /\ [][NextBinary]_vars

Returned(fn) == calc_pc = "return" /\ calc_ret.fn = fn

\* the handler the precedence Money > Date > Time > Duration > Number selects
PrecedenceHandler(left_type, right_type) ==
    LET types == {left_type, right_type}
        ranked == <<"Money", "Date", "Time", "Duration", "Number">>
        names  == <<"money", "date", "time", "duration", "number">>
        hits   == {i \in 1..5 : ranked[i] \in types}
    IN  IF hits = {} THEN "none"
        ELSE names[CHOOSE i \in hits : \A j \in hits : i <= j]

\* C11: binary dispatch is a function of the two evaluated operand types
\* alone, with the precedence Money > Date > Time > Duration > Number: the
\* handler that runs, and so the result, is the one the precedence selects.
C11_DispatchByPrecedence ==
    Returned("executer_binary") =>
        LET h == PrecedenceHandler(calc_ret.left.t, calc_ret.right.t)
        IN  /\ calc_ret.handler = h
            /\ calc_ret.result = calculate(h, NoVariables, calc_call.operator,
                                           calc_ret.left, calc_ret.right)

\* a Number met a Money and the money handler answered
C11_Witness ==
    /\ Returned("executer_binary")
    /\ calc_ret.left.t = "Number" /\ calc_ret.right.t = "Money"
    /\ calc_ret.handler = "money"
    /\ calc_ret.result.ok /\ calc_ret.result.val.t = "Money"

\* x / y of the specification: 0 when y is 0
Quotient(x, y) == IF y[1] = 0 THEN RZero ELSE Rat(x[1] * y[2], x[2] * y[1])

\* n op (p percent of n)
PercentOf(n, p) == Quotient(RMul(n, p), RHundred)

Arithmetic(operator, x, y) ==
    CASE operator = "+" -> RAdd(x, y)
      [] operator = "-" -> RSub(x, y)
      [] operator = "*" -> RMul(x, y)
      [] operator = "/" -> Quotient(x, y)

TypesOfCall == <<calc_ret.left.t, calc_ret.right.t>>

\* C12: in the number handler a Percent(p) and a Number(n), in either order,
\* give n + n*p/100, n - n*p/100, n * (n*p/100) and n / (n*p/100); two
\* Numbers give ordinary arithmetic; left to right 120 + 30% + 10% = 171.6.
C12_PercentOfNumber ==
    (Returned("executer_binary") /\ calc_call.operator \in {"+", "-", "*", "/"}) =>
        /\ TypesOfCall = <<"Number", "Percent">> =>
              calc_ret.result = Ok(AstNumber(Arithmetic(calc_call.operator, calc_ret.left.n,
                                       PercentOf(calc_ret.left.n, calc_ret.right.n))),
                                   NoVariables)
        /\ TypesOfCall = <<"Percent", "Number">> =>
              calc_ret.result = Ok(AstNumber(Arithmetic(calc_call.operator, calc_ret.right.n,
                                       PercentOf(calc_ret.right.n, calc_ret.left.n))),
                                   NoVariables)
        /\ TypesOfCall = <<"Number", "Number">> =>
              calc_ret.result = Ok(AstNumber(Arithmetic(calc_call.operator, calc_ret.left.n,
                                                        calc_ret.right.n)), NoVariables)

\* 120 + 30% + 10% has been evaluated and is 171.6
C12_Witness ==
    /\ Returned("executer_binary")
    /\ calc_call.left \in NestedOperands
    /\ calc_call.operator = "+" /\ calc_call.right = AstPercent(Int2Rat(10))
    /\ calc_ret.left = AstNumber(Int2Rat(156))
    /\ calc_ret.result = Ok(AstNumber(Rat(1716, 10)), NoVariables)

\* the operand types between which the number and money handlers divide
DividingTypes == {"Number", "Percent", "Money", "Duration"}

\* the value the first operand of the given type holds
FirstOf(type) == IF calc_ret.left.t = type THEN calc_ret.left.n ELSE calc_ret.right.n

\* the divisor of the division the call performs: with a Percent operand the
\* percentage of the number (of the price in the money handler), else the
\* value of the right operand
DivisorOfCall ==
    IF "Percent" \in {calc_ret.left.t, calc_ret.right.t}
    THEN PercentOf(FirstOf(IF calc_ret.handler = "money" THEN "Money" ELSE "Number"),
                   FirstOf("Percent"))
    ELSE NumberOf(NoVariables, calc_ret.right)

DividesByZero ==
    /\ Returned("executer_binary")
    /\ calc_call.operator = "/"
    /\ calc_ret.handler \in {"number", "money"}
    /\ calc_ret.left.t \in DividingTypes /\ calc_ret.right.t \in DividingTypes
    /\ DivisorOfCall = RZero

\* C13: every division of the number handler, of the percent branches and of
\* the money handler whose divisor is zero yields the value 0, never an error
\* and never an infinite value.
C13_DivisionByZeroIsZero ==
    DividesByZero => (calc_ret.result.ok /\ calc_ret.result.val.n = RZero)

\* a price was divided by 0 percent of it
C13_Witness ==
    /\ DividesByZero
    /\ calc_ret.left = AstMoney(Int2Rat(10), "usd") /\ calc_ret.right.t = "Percent"
    /\ calc_ret.result = Ok(AstMoney(RZero, "usd"), NoVariables)

\* the time of day s seconds after midnight, s of any sign or size
TimeOfDay(s) == s % 86400

TimePlusDuration ==
    /\ Returned("executer_binary")
    /\ calc_ret.left.t = "Time" /\ calc_ret.right.t = "Duration"
    /\ calc_call.operator \in {"+", "-"}

\* C16: for a Time t and a Duration d >= 0, t + d and t - d are t moved
\* forward, respectively backward, by d seconds modulo 24 hours; for d < 0,
\* t + d is t moved backward by |d|.
C16_TimeMovedByDuration ==
    TimePlusDuration =>
        LET t == calc_ret.left.time
            d == calc_ret.right.duration
        IN  /\ (d >= 0 /\ calc_call.operator = "+") =>
                  calc_ret.result = Ok(AstTime(TimeOfDay(t + d)), NoVariables)
            /\ (d >= 0 /\ calc_call.operator = "-") =>
                  calc_ret.result = Ok(AstTime(TimeOfDay(t - d)), NoVariables)
            /\ (d < 0 /\ calc_call.operator = "+") =>
                  calc_ret.result = Ok(AstTime(TimeOfDay(t - Abs(d))), NoVariables)

\* 11:30 plus minus one hour has been evaluated and is 10:30
C16_Witness ==
    /\ TimePlusDuration
    /\ calc_call.operator = "+"
    /\ calc_ret.left = AstTime(41400) /\ calc_ret.right = AstDuration(-3600)
    /\ calc_ret.result = Ok(AstTime(37800), NoVariables)

(***************************************************************************)
(* The duration rules (worker/rules/duration_rules.rs): duration_parse     *)
(* builds a Duration token from a number and a unit, as_duration converts  *)
(* a Duration or Time token into a number of units.  fields maps a field   *)
(* name to the token it captured; a missing field maps to NoToken.         *)
(***************************************************************************)
MaxNumber == 3

Units == {"second", "minute", "hour", "day", "week", "month", "year"}

NoToken                    == [t |-> "None"]
TextToken(text)            == [t |-> "Text", text |-> text]
NumberToken(n)             == [t |-> "Number", n |-> n]
TimeToken(time)            == [t |-> "Time", time |-> time]
DurationToken(d, n, unit)  == [t |-> "Duration", duration |-> d, n |-> n, unit |-> unit]

HandlerOk(token) == [ok |-> TRUE,  token |-> token,   err |-> ""]
HandlerErr(err)  == [ok |-> FALSE, token |-> NoToken, err |-> err]

Fields(duration, type, source) ==
    [duration |-> duration, type |-> type, source |-> source]

contains_key(fields, name) == fields[name] # NoToken

get_number(name, fields) ==
    IF fields[name].t = "Number" THEN [some |-> TRUE, n |-> fields[name].n]
    ELSE [some |-> FALSE, n |-> 0]

get_text(name, fields) ==
    IF fields[name].t = "Text" THEN [some |-> TRUE, text |-> fields[name].text]
    ELSE [some |-> FALSE, text |-> ""]

\* CONSTANT_PAIRS of the language: the ConstantType a word names
constant_pair(text) ==
    IF text \in Units THEN [some |-> TRUE, constant |-> text]
    ELSE [some |-> FALSE, constant |-> ""]

\* chrono: Duration::seconds, minutes, hours, days, weeks, in seconds
DurationOf(constant_type, duration) ==
    CASE constant_type = "second" -> duration
      [] constant_type = "minute" -> duration * 60
      [] constant_type = "hour"   -> duration * 3600
      [] constant_type = "day"    -> duration * 86400
      [] constant_type = "week"   -> duration * 604800

duration_parse(fields) ==
    IF ~(contains_key(fields, "duration") /\ contains_key(fields, "type"))
    THEN HandlerErr("Date type not valid")
    ELSE LET duration      == get_number("duration", fields)
             duration_type == get_text("type", fields)
             constant_type == constant_pair(duration_type.text)
         IN  IF ~duration.some THEN HandlerErr("Duration information not valid")
             ELSE IF ~duration_type.some THEN HandlerErr("Duration type information not valid")
             ELSE IF ~constant_type.some THEN HandlerErr("Duration type not valid")
             ELSE IF constant_type.constant \in {"day", "second", "minute", "hour", "week"}
             THEN HandlerOk(DurationToken(DurationOf(constant_type.constant, duration.n),
                                          duration.n, constant_type.constant))
             ELSE HandlerErr("Duration type not valid")

\* seconds / unit as f64
UnitDivide(seconds, constant_type) ==
    CASE constant_type = "day"    -> Rat(seconds, DAY)
      [] constant_type = "month"  -> Rat(seconds, MONTH)
      [] constant_type = "year"   -> Rat(seconds, YEAR)
      [] constant_type = "second" -> Int2Rat(seconds)
      [] constant_type = "minute" -> Rat(seconds, MINUTE)
      [] constant_type = "hour"   -> Rat(seconds, HOUR)
      [] constant_type = "week"   -> Rat(seconds, WEEK)

\* lines 88-103: the source is neither a Duration nor a Time
as_duration_of_number(fields, constant_type) ==
    LET duration == get_number("duration", fields)
    IN  IF ~duration.some THEN HandlerErr("Duration information not valid")
        ELSE CASE constant_type = "day"    -> HandlerOk(DurationToken(duration.n * 86400, duration.n, constant_type))
               [] constant_type = "month"  -> HandlerOk(DurationToken(duration.n * 30 * 86400, duration.n, constant_type))
               [] constant_type = "year"   -> HandlerOk(DurationToken(duration.n * 365 * 86400, duration.n, constant_type))
               [] constant_type = "second" -> HandlerOk(DurationToken(duration.n, duration.n, constant_type))
               [] constant_type = "minute" -> HandlerOk(DurationToken(duration.n * 60, duration.n, constant_type))
               [] constant_type = "hour"   -> HandlerOk(DurationToken(duration.n * 3600, duration.n, constant_type))
               [] OTHER                    -> HandlerErr("Duration type not valid")

as_duration(fields) ==
    IF ~(contains_key(fields, "source") /\ contains_key(fields, "type"))
    THEN HandlerErr("Date type not valid")
    ELSE LET duration_type == get_text("type", fields)
             constant_type == constant_pair(duration_type.text)
             source        == fields["source"]
         IN  IF ~duration_type.some THEN HandlerErr("Duration type information not valid")
             ELSE IF ~constant_type.some THEN HandlerErr("Duration type not valid")
             ELSE IF source.t = "Duration"
             THEN IF constant_type.constant \in {"day", "second", "minute", "hour", "week"}
                  THEN HandlerOk(NumberToken(UnitDivide(Abs(source.duration),
                                                        constant_type.constant)))
                  ELSE HandlerErr("Duration type not valid")
             ELSE IF source.t = "Time"
             THEN HandlerOk(NumberToken(UnitDivide(source.time, constant_type.constant)))
             ELSE as_duration_of_number(fields, constant_type.constant)

\* "<n> <u1>" is parsed, then the token it gave is converted "as <u2>"
CallDurationParse ==
    /\ calc_pc = "call"
    /\ calc_call.fn = "duration_parse"
    /\ calc_ret' = [fn |-> "duration_parse",
                    result |-> duration_parse(Fields(NumberToken(calc_call.n),
                                                     TextToken(calc_call.from), NoToken))]
    /\ calc_pc' = "parsed"
    /\ UNCHANGED <<calc_call, exec_vars, tok_vars, ui_vars, rule_vars>>

CallAsDuration ==
    /\ calc_pc = "parsed"
    /\ calc_ret.result.ok
    /\ calc_ret' = [fn |-> "as_duration",
                    source |-> calc_ret.result.token,
                    result |-> as_duration(Fields(NoToken, TextToken(calc_call.to),
                                                  calc_ret.result.token))]
    /\ calc_pc' = "return"
    /\ UNCHANGED <<calc_call, exec_vars, tok_vars, ui_vars, rule_vars>>

InitDuration ==
    /\ calc_call \in {[fn |-> "duration_parse", n |-> n, from |-> u1, to |-> u2] :
                         n \in 0..MaxNumber, u1 \in Units, u2 \in Units}
    /\ calc_ret = [fn |-> "none"]
    /\ calc_pc = "call"
    /\ IdleExec /\ IdleTok /\ IdleUi /\ IdleRule

NextDuration == CallDurationParse \/ CallAsDuration

SpecDuration == InitDuration /\ [][NextDuration]_vars

\* the length of a unit in seconds: a month is 30 days, a year 365 days
SecondsOf(unit) ==
    CASE unit = "second" -> 1
      [] unit = "minute" -> 60
      [] unit = "hour"   -> 3600
      [] unit = "day"    -> 86400
      [] unit = "week"   -> 7 * 86400
      [] unit = "month"  -> 30 * 86400
      [] unit = "year"   -> 365 * 86400

\* C14: parsing "<n> <u1>" with duration_parse and converting the Duration
\* with as_duration "as <u2>" yields Number(n * seconds(u1) / seconds(u2))
\* for every whole number n and all units u1, u2 from second to year.
C14_DurationRoundTrip ==
    /\ calc_pc = "parsed" => calc_ret.result.ok
    /\ calc_pc = "return" =>
          calc_ret.result = HandlerOk(NumberToken(
              Rat(calc_call.n * SecondsOf(calc_call.from), SecondsOf(calc_call.to))))

(***************************************************************************)
(* The token stream passes of execute (executer/mod.rs): token_cleaner and *)
(* missing_token_adder.  A Token is [start, end, token, is_temp].          *)
(***************************************************************************)
MaxStream == 4

Token(start, end, token, is_temp) ==
    [start |-> start, end |-> end, token |-> token, is_temp |-> is_temp]

TokenNumber(n)    == [t |-> "Number", n |-> n]
TokenOperator(ch) == [t |-> "Operator", ch |-> ch]
TokenText(text)   == [t |-> "Text", text |-> text]

TokenTypes == {TokenNumber(100), TokenText("x"), TokenOperator("+"), TokenOperator("=")}

\* the token streams of a line: a token per position
TokenStreams ==
    {[i \in 1..Len(w) |-> Token(i - 1, i, w[i], FALSE)] :
        w \in UNION {[1..n -> TokenTypes] : n \in 0..MaxStream}}

IsOperator(token) == token.token.t = "Operator"

\* lines 51-60: the index after the first '=', 0 without one (counted from 0)
after_assign_index(tokens) ==
    LET assigns == {i \in 1..Len(tokens) : tokens[i].token = TokenOperator("=")}
    IN  IF assigns = {} THEN 0 ELSE CHOOSE i \in assigns : \A j \in assigns : i <= j

TempNumber == Token(0, 1, TokenNumber(0), TRUE)
TempPlus   == Token(0, 1, TokenOperator("+"), TRUE)

\* lines 80-93; index counts from 0
RECURSIVE adder_loop(_, _)
adder_loop(tokens, index) ==
    IF index >= Len(tokens) THEN tokens
    ELSE IF IsOperator(tokens[index + 1]) THEN adder_loop(tokens, index + 2)
    ELSE adder_loop(InsertAt(tokens, index + 1, TempPlus), index + 2)

missing_token_adder(tokens) ==
    LET index  == after_assign_index(tokens)
        first  == IF IsOperator(tokens[index + 1])
                  THEN InsertAt(tokens, index + 1, TempNumber) ELSE tokens
        filled == adder_loop(first, index + 1)
    IN  IF Len(tokens) = 0 THEN tokens
        ELSE IF index + 1 >= Len(tokens) THEN tokens
        ELSE IF IsOperator(filled[Len(filled)])
        THEN InsertAt(filled, Len(filled), TempNumber)
        ELSE filled

\* lines 40-47: the Text tokens from index (counted from 0) on are removed
RECURSIVE cleaner_loop(_, _)
cleaner_loop(tokens, index) ==
    IF index >= Len(tokens) THEN tokens
    ELSE IF tokens[index + 1].token.t = "Text"
    THEN cleaner_loop(SubSeq(tokens, 1, index) \o SubSeq(tokens, index + 2, Len(tokens)), index)
    ELSE cleaner_loop(tokens, index + 1)

\* variant: the scan for '=' is left out, the loop starts at 0
token_cleaner_whole_line(tokens) == cleaner_loop(tokens, 0)

token_cleaner(tokens) == cleaner_loop(tokens, after_assign_index(tokens))

CallTokenCleaner ==
    /\ calc_pc = "call"
    /\ calc_call.fn = "token_cleaner"
    /\ calc_ret' = [fn |-> "token_cleaner", tokens |-> token_cleaner(calc_call.tokens)]
    /\ calc_pc' = "return"
    /\ UNCHANGED <<calc_call, exec_vars, tok_vars, ui_vars, rule_vars>>

CallMissingTokenAdder ==
    /\ calc_pc = "call"
    /\ calc_call.fn = "missing_token_adder"
    /\ calc_ret' = [fn |-> "missing_token_adder",
                    tokens |-> missing_token_adder(calc_call.tokens)]
    /\ calc_pc' = "return"
    /\ UNCHANGED <<calc_call, exec_vars, tok_vars, ui_vars, rule_vars>>

InitStream ==
    /\ calc_call \in {[fn |-> fn, tokens |-> tokens] :
                         fn \in {"token_cleaner", "missing_token_adder"},
                         tokens \in TokenStreams}
    /\ calc_ret = [fn |-> "none"]
    /\ calc_pc = "call"
    /\ IdleExec /\ IdleTok /\ IdleUi /\ IdleRule

NextStream == CallTokenCleaner \/ CallMissingTokenAdder

SpecStream == InitStream /\ [][NextStream]_vars

\* the positions after the first '=' (all positions without one)
AfterAssign(tokens) == (after_assign_index(tokens) + 1)..Len(tokens)

\* C15: after missing_token_adder no two non-operator tokens are adjacent in
\* the part of the stream after the first '=' (the whole stream without '=').
C15_NoAdjacentValues ==
    Returned("missing_token_adder") =>
        \A i \in AfterAssign(calc_ret.tokens) :
            i < Len(calc_ret.tokens) =>
                IsOperator(calc_ret.tokens[i]) \/ IsOperator(calc_ret.tokens[i + 1])

\* an existing token covers the start or the end of the offered span
CoversEndpoint(existing, start, end) ==
    \/ (existing.start <= start /\ start < existing.end)
    \/ (existing.start < end /\ end <= existing.end)

\* C17: add_token_location inserts the offered span if and only if no
\* existing token covers either endpoint of it; when it refuses it returns
\* false and leaves the list unchanged; the tokens already in the list are
\* never displaced or altered by a later match.
C17_AddIffNoEndpointCovered ==
    [][(tok_pc = "parsers" /\ <<calc_call, calc_ret>>' # <<calc_call, calc_ret>>) =>
          LET start   == calc_call'.start
              end     == calc_call'.end
              covered == \E i \in 1..Len(token_locations) :
                            CoversEndpoint(token_locations[i], start, end)
          IN  /\ calc_ret'.added <=> ~covered
              /\ ~calc_ret'.added => token_locations' = token_locations
              /\ calc_ret'.added =>
                    /\ Len(token_locations') = Len(token_locations) + 1
                    /\ token_locations'[Len(token_locations')].start = start
                    /\ token_locations'[Len(token_locations')].end = end
                    /\ token_locations'[Len(token_locations')].status = "Active"
              /\ \A i \in 1..Len(token_locations) :
                    token_locations'[i] = token_locations[i]]_vars

\* a parser after the first was refused a span of which an existing token
\* covers an endpoint
C17_Witness ==
    /\ tok_pc = "parsers" /\ tok_category > 1
    /\ calc_ret.fn = "add_token_location" /\ ~calc_ret.added
    /\ \E i \in 1..Len(token_locations) :
          CoversEndpoint(token_locations[i], calc_call.start, calc_call.end)

\* the indices of the Active tokens of the list, in order
ActiveIndices(tokens) == {i \in 1..Len(tokens) : tokens[i].status = "Active"}

\* the tokens a match that ended before index target (from 0) consumed: the
\* last n Active tokens before it
MatchedIndices(tokens, target, n) ==
    {i \in ActiveIndices(tokens) :
        i <= target /\ Cardinality({j \in ActiveIndices(tokens) : i <= j /\ j <= target}) <= n}

Lowest(S)  == CHOOSE x \in S : \A y \in S : x <= y
Highest(S) == CHOOSE x \in S : \A y \in S : x >= y

\* the list without its element at position p
Without(tokens, p) == SubSeq(tokens, 1, p - 1) \o SubSeq(tokens, p + 1, Len(tokens))

\* C18: whenever a rule fires, exactly the matched tokens are flagged Removed
\* and none is deleted, and exactly one new Active token is inserted, of the
\* handler's type, spanning from the start of the first matched token to the
\* end of the last matched token.
C18_FiringReplacesMatch ==
    last_fire.fired =>
        LET old     == last_fire.tokens
            matched == MatchedIndices(old, last_fire.target_token_index,
                                      last_fire.total_rule_token)
            flagged == [i \in 1..Len(old) |->
                           IF i \in matched THEN [old[i] EXCEPT !.status = "Removed"]
                           ELSE old[i]]
            new     == RuleToken(old[Lowest(matched)].start, old[Highest(matched)].end,
                                 last_fire.token, "", "Active")
        IN  \E p \in 1..Len(rule_locations) :
                /\ Without(rule_locations, p) = flagged
                /\ rule_locations[p] = new

\* the types of the Active tokens, in list order
RECURSIVE ActiveTypes(_)
ActiveTypes(tokens) ==
    IF tokens = <<>> THEN <<>>
    ELSE IF tokens[1].status = "Active"
         THEN <<tokens[1].token_type>> \o ActiveTypes(Tail(tokens))
         ELSE ActiveTypes(Tail(tokens))

\* the pattern matches a contiguous run of the sequence at some position
Occurs(types, pattern) ==
    \E k \in 0..(Len(types) - Len(pattern)) :
        \A i \in 1..Len(pattern) : types[k + i] = pattern[i]

\* C19: when apply_rules returns, no pattern of a rule whose handler succeeds
\* matches a contiguous run of Active tokens at any position.
C19_FixedPoint ==
    rule_pc = "done" =>
        \A r \in 1..Len(rules) :
            rules[r].function # "err" =>
                \A k \in 1..Len(rules[r].tokens_list) :
                    ~Occurs(ActiveTypes(rule_locations), rules[r].tokens_list[k])

HandlerErrs ==
    /\ rule_pc = "for"
    /\ Matched(rule_locations, CurrentPattern)
    /\ CurrentRule.function = "err"

\* C20: when a rule's handler returns an error for a match, the attempt
\* changes nothing in the token list and does not request another pass, and
\* the engine goes on to the next pattern of the rule, else to the next rule.
C20_HandlerErrorIsSkipped ==
    [][HandlerErrs =>
          /\ rule_locations' = rule_locations
          /\ execute_rules' = execute_rules
          /\ IF pattern_index < Len(rules[rule_index].tokens_list)
             THEN /\ rule_index' = rule_index /\ pattern_index' = pattern_index + 1
                  /\ rule_pc' = "for"
             ELSE /\ rule_index' = rule_index + 1 /\ pattern_index' = 1
                  /\ rule_pc' = IF rule_index < Len(rules) THEN "for" ELSE "while"]_vars

\* a handler failed on the first pattern of a rule and the engine is at the
\* second one, with no pass requested
C20_Witness ==
    /\ last_fire.error
    /\ rule_pc = "for" /\ pattern_index = 2
    /\ ~execute_rules

\* the tokens of the list that are not Text, in order
RECURSIVE WithoutText(_)
WithoutText(tokens) ==
    IF tokens = <<>> THEN <<>>
    ELSE IF tokens[1].token.t = "Text" THEN WithoutText(Tail(tokens))
    ELSE <<tokens[1]>> \o WithoutText(Tail(tokens))

\* C21: token_cleaner removes every Text token after the first '=' (from the
\* start of the line without '='), and leaves every token up to and including
\* that '=' and every non-Text token unchanged and in its original order.
C21_CleanerStripsTextAfterAssign ==
    Returned("token_cleaner") =>
        LET tokens == calc_call.tokens
            index  == after_assign_index(tokens)
        IN  calc_ret.tokens = SubSeq(tokens, 1, index)
                              \o WithoutText(SubSeq(tokens, index + 1, Len(tokens)))

\* a line with a Text before its '=' and a Text after it has been cleaned
C21_Witness ==
    /\ Returned("token_cleaner")
    /\ LET tokens == calc_call.tokens
           index  == after_assign_index(tokens)
       IN  /\ index > 0
           /\ \E i \in 1..index : tokens[i].token.t = "Text"
           /\ \E i \in (index + 1)..Len(tokens) : tokens[i].token.t = "Text"
           /\ Len(calc_ret.tokens) < Len(tokens)

\* C22: for every non-empty stream whose first token after the first '=' (the
\* first token without '=') is an Operator, missing_token_adder inserts
\* Number(0) immediately before that operator.
C22_LeadingOperatorGetsZero ==
    Returned("missing_token_adder") =>
        LET tokens == calc_call.tokens
            index  == after_assign_index(tokens)
        IN  (index < Len(tokens) /\ IsOperator(tokens[index + 1])) =>
                /\ Len(calc_ret.tokens) > Len(tokens)
                /\ SubSeq(calc_ret.tokens, 1, index) = SubSeq(tokens, 1, index)
                /\ calc_ret.tokens[index + 1].token = TokenNumber(0)
                /\ calc_ret.tokens[index + 2] = tokens[index + 1]

\* C23: the stream missing_token_adder returns never ends with an Operator:
\* when the last token is an Operator, Number(0) is appended after it.
C23_NeverEndsWithOperator ==
    Returned("missing_token_adder") =>
        (calc_ret.tokens # <<>> => ~IsOperator(calc_ret.tokens[Len(calc_ret.tokens)]))

\* C24: duration_parse, given a Number field n and a Text field naming any of
\* the units second to year, returns Duration(d, n, unit) with d equal to n
\* times the unit's length in seconds (month 30 days, year 365 days); both
\* fields being present and the word a unit, it does not return an error.
C24_DurationParseAllUnits ==
    (calc_pc = "parsed" /\ calc_ret.fn = "duration_parse" /\ calc_call.from \in Units) =>
        calc_ret.result =
            HandlerOk(DurationToken(calc_call.n * SecondsOf(calc_call.from),
                                    calc_call.n, calc_call.from))

\* the FX table applied to a price: out of currency from, into currency to
Exchanged(price, from, to) ==
    Quotient(RMul(price, currency_rate(from)), currency_rate(to))

\* C25: in the money handler the result's currency is the right operand's
\* when the right operand is Money and otherwise the left operand's; when
\* both operands are Money the left price is converted into the right
\* operand's currency with the FX table and the operator is applied to the
\* converted left price and the right price.
C25_MoneyTargetCurrency ==
    (Returned("executer_binary") /\ calc_ret.handler = "money") =>
        LET left  == calc_ret.left
            right == calc_ret.right
        IN  /\ calc_ret.result.ok =>
                  /\ calc_ret.result.val.t = "Money"
                  /\ calc_ret.result.val.currency =
                        IF right.t = "Money" THEN right.currency ELSE left.currency
            /\ (left.t = "Money" /\ right.t = "Money"
                  /\ calc_call.operator \in {"+", "-", "*", "/"}) =>
                  calc_ret.result =
                      Ok(AstMoney(Arithmetic(calc_call.operator,
                                             Exchanged(left.n, left.currency, right.currency),
                                             right.n),
                                  right.currency), NoVariables)

\* a price in one currency has been added to a price in another
C25_Witness ==
    /\ Returned("executer_binary") /\ calc_ret.handler = "money"
    /\ calc_ret.left.t = "Money" /\ calc_ret.right.t = "Money"
    /\ calc_ret.left.currency # calc_ret.right.currency
    /\ calc_ret.left.n # RZero
    /\ calc_call.operator = "+"
    /\ calc_ret.result.ok /\ calc_ret.result.val.currency = calc_ret.right.currency

(***************************************************************************)
(* Date and Duration (compiler/mod.rs, calculate_date): a date meets a     *)
(* duration of some years, months and days.                                *)
(***************************************************************************)
MaxYears  == 1
MaxMonths == 12
MaxDays   == 1

Dates ==
    {date \in {Date(year, month, day) : year \in {2020, 2021}, month \in 1..12,
                                        day \in {1, 28, 31}} : ValidDate(date)}

\* the durations of less than a year beyond their whole years
DateCalls ==
    {[fn |-> "calculate_date", date |-> date, operator |-> operator,
      years |-> years, months |-> months, days |-> days] :
        date \in Dates, operator \in {"+", "-"}, years \in 0..MaxYears,
        months \in {m \in 0..MaxMonths : m * MONTH + MaxDays * DAY < YEAR},
        days \in 0..MaxDays}

DurationOfCall(call) == call.years * YEAR + call.months * MONTH + call.days * DAY

CallCalculateDate ==
    /\ calc_pc = "call"
    /\ calc_call.fn = "calculate_date"
    /\ calc_ret' = [fn |-> "calculate_date",
                    result |-> calculate_date(NoVariables, calc_call.operator,
                                              AstDate(calc_call.date),
                                              AstDuration(DurationOfCall(calc_call)))]
    /\ calc_pc' = "return"
    /\ UNCHANGED <<calc_call, exec_vars, tok_vars, ui_vars, rule_vars>>

InitDate ==
    /\ calc_call \in DateCalls
    /\ calc_ret = [fn |-> "none"]
    /\ calc_pc = "call"
    /\ IdleExec /\ IdleTok /\ IdleUi /\ IdleRule

NextDate == CallCalculateDate

SpecDate == InitDate /\ [][NextDate]_vars

\* the date the carry rule gives before the days are added
CarriedDate(date, years, months) ==
    Date(date.year + years + (date.month - 1 + months) \div 12,
         ((date.month - 1 + months) % 12) + 1, date.day)

\* C26: Date + Duration always yields a valid calendar date: the year is
\* advanced by Y, the month by M with carry into the year, so that the month
\* is ((month - 1 + M) mod 12) + 1 and the year grows by (month - 1 + M) div
\* 12, the day of month is kept, and the rest is then added as days.
C26_DatePlusDuration ==
    (Returned("calculate_date") /\ calc_call.operator = "+") =>
        LET carried == CarriedDate(calc_call.date, calc_call.years, calc_call.months)
        IN  /\ calc_ret.result.ok
            /\ ValidDate(calc_ret.result.val.date)
            /\ ValidDate(carried) =>
                  calc_ret.result.val.date = DateAdd(carried, calc_call.days * DAY)

\* the date the borrow rule gives before the days are subtracted
BorrowedDate(date, years, months) ==
    LET borrow == (months % 12) >= date.month
    IN  Date(date.year - years - (months \div 12) - (IF borrow THEN 1 ELSE 0),
             date.month - (months % 12) + (IF borrow THEN 12 ELSE 0), date.day)

\* C27: Date - Duration borrows a year when the month subtraction underflows:
\* if M mod 12 is not smaller than the date's month, the year is one less than
\* year - M div 12 and the month wraps into 1..12; otherwise the year is
\* year - M div 12 and the month is reduced by M mod 12.
C27_DateMinusDurationBorrows ==
    (Returned("calculate_date") /\ calc_call.operator = "-") =>
        LET borrowed == BorrowedDate(calc_call.date, calc_call.years, calc_call.months)
        IN  /\ calc_ret.result.ok
            /\ ValidDate(borrowed) =>
                  calc_ret.result.val.date = DateSub(borrowed, calc_call.days * DAY)

\* C28: update_tokens(s, e, type): when the collection holds a token that
\* starts at position s and a token that ends at position e, every token from
\* the first of these through the second is replaced by exactly one token
\* with span [s, e] and the new type, and all other tokens are unchanged and
\* keep their order; otherwise the collection is left unchanged.
C28_UpdateReplacesRange ==
    ui_last.op = "update_tokens" =>
        LET before == ui_last.tokens
            s      == get_position(char_sizes, ui_last.start)
            e      == get_position(char_sizes, ui_last.end)
            starts == {i \in 1..Len(before) : before[i].start = s}
            ends   == {i \in 1..Len(before) : before[i].end = e}
        IN  IF starts # {} /\ ends # {}
            THEN \E a \in starts, b \in ends :
                    /\ a <= b
                    /\ ui_tokens = SubSeq(before, 1, a - 1)
                                       \o <<UiToken(s, e, "VariableDefination")>>
                                       \o SubSeq(before, b + 1, Len(before))
            ELSE ui_tokens = before

\* the evaluation of the right side of assignment line i on its own
RightSideOf(i) ==
    LET parsed == SyntaxParser_parse(trace[i].before, processed[i])
    IN  execute_ast(parsed.vars, parsed.ast.expression)

\* C29: if evaluating the right side of an assignment returns an error, the
\* assigned variable's cell keeps the value it had before the line (an empty
\* cell for a name first seen on the line), no other variable cell changes,
\* and the error is returned as the assignment's result.
C29_FailedAssignmentKeepsCells ==
    \A i \in Lines :
        (IsAssignLine(i) /\ ~RightSideOf(i).ok) =>
            /\ CellsKept(i)
            /\ \A j \in 1..Len(trace[i].after) :
                  j > Len(trace[i].before) => trace[i].after[j].data = AstNone
            /\ trace[i].result > 0
            /\ ResultOf(i) = ResultErr(RightSideOf(i).err)

\* an assignment to a variable that holds a value failed and the value stayed
C29_Witness ==
    \E i \in Lines :
        /\ IsAssignLine(i) /\ ~RightSideOf(i).ok
        /\ processed[i].assign \in Defined(trace[i].before)
        /\ trace[i].before[IndexOf(trace[i].before, processed[i].assign)].data # AstNone
        /\ CellAfter(i, processed[i].assign) =
              trace[i].before[IndexOf(trace[i].before, processed[i].assign)].data

\* the call is (t + d) - d for a Time t and a Duration d
IsAddThenSubtract(call) ==
    /\ call.left.t = "Binary" /\ call.left.operator = "+"
    /\ call.left.left.t = "Time" /\ call.left.right.t = "Duration"
    /\ call.operator = "-"
    /\ call.right = call.left.right

\* C30: adding and then subtracting the same duration returns the original
\* time: for every Time t and every Duration d, positive or negative, shorter
\* than 24 hours, (t + d) - d = t.
C30_AddThenSubtractIsIdentity ==
    (Returned("executer_binary") /\ IsAddThenSubtract(calc_call)
        /\ Abs(calc_call.right.duration) < DAY) =>
        calc_ret.result = Ok(calc_call.left.left, NoVariables)

====
